---- MODULE Spec2Model ----
(***************************************************************************)
(* State-machine model of the WebView shell of veiculorastreado:           *)
(*   src/utils/config.ts             config.webview.baseUrl/allowedDomains *)
(*   src/components/WebViewScreen.tsx the screen component, its async      *)
(*                                    chains and its event handlers        *)
(* JavaScript strings are modelled as sequences of one-character strings,  *)
(* so that split/join/includes/endsWith and URL parsing are computed, not  *)
(* assumed.                                                                 *)
(***************************************************************************)
EXTENDS Integers, Sequences, FiniteSets, TLC

(***************************************************************************)
(* JavaScript string primitives                                            *)
(***************************************************************************)

\* null and undefined: one-element sequences that are no string of characters
\* (every string is a sequence of one-character strings; "" is << >>)
Null == << "null" >>

Undefined == << "undefined" >>

\* JavaScript truthiness of a string, null or undefined
Truthy(s) == s \notin {Null, Undefined, << >>}

\* String.prototype.startsWith
StartsWith(s, t) == Len(t) <= Len(s) /\ SubSeq(s, 1, Len(t)) = t

\* String.prototype.endsWith
EndsWith(s, t) == Len(t) <= Len(s) /\ SubSeq(s, Len(s) - Len(t) + 1, Len(s)) = t

\* String.prototype.includes
Includes(s, t) == \E i \in 1..(Len(s) - Len(t) + 1) : SubSeq(s, i, i + Len(t) - 1) = t

\* String.prototype.indexOf for a single character, 1-based, 0 when absent
IndexOf(s, c) ==
  LET at == {i \in 1..Len(s) : s[i] = c}
  IN IF at = {} THEN 0 ELSE CHOOSE i \in at : \A j \in at : i <= j

\* String.prototype.lastIndexOf for a single character, 1-based, 0 when absent
LastIndexOf(s, c) ==
  LET at == {i \in 1..Len(s) : s[i] = c}
  IN IF at = {} THEN 0 ELSE CHOOSE i \in at : \A j \in at : i >= j

\* the rest of s from 1-based position i on
From(s, i) == SubSeq(s, i, Len(s))

RECURSIVE Split(_, _)
\* String.prototype.split on a one-character separator
Split(s, sep) ==
  LET i == IndexOf(s, sep)
  IN IF i = 0 THEN << s >> ELSE << SubSeq(s, 1, i - 1) >> \o Split(From(s, i + 1), sep)

RECURSIVE Join(_, _)
\* Array.prototype.join
Join(parts, sep) == IF Len(parts) = 0 THEN << >> ELSE IF Len(parts) = 1 THEN parts[1] ELSE parts[1] \o sep \o Join(Tail(parts), sep)

\* Array.prototype.slice(-2)
SliceLast2(parts) == IF Len(parts) <= 2 THEN parts ELSE SubSeq(parts, Len(parts) - 1, Len(parts))

(***************************************************************************)
(* new URL(u).hostname (WHATWG URL, as the Expo runtime provides it)       *)
(***************************************************************************)

Letters == {"a", "b", "c", "d", "e", "f", "g", "h", "i", "j", "k", "l", "m", "n", "o", "p", "q", "r", "s", "t", "u", "v", "w", "x", "y", "z"}

Digits == {"0", "1", "2", "3", "4", "5", "6", "7", "8", "9"}

SchemeChars == Letters \cup Digits \cup {"+", "-", "."}

SpecialSchemes == {<<"h", "t", "t", "p">>, <<"h", "t", "t", "p", "s">>, <<"f", "t", "p">>, <<"w", "s">>, <<"w", "s", "s">>}

\* the scheme of u, or Null when u does not start with "<scheme>:"
SchemeOf(u) ==
  LET i == IndexOf(u, ":")
  IN IF i >= 2 /\ u[1] \in Letters /\ \A j \in 1..(i - 1) : u[j] \in SchemeChars THEN SubSeq(u, 1, i - 1) ELSE Null

RECURSIVE SkipSlashes(_)
\* special schemes ignore any number of slashes before the authority
SkipSlashes(s) == IF Len(s) > 0 /\ s[1] = "/" THEN SkipSlashes(Tail(s)) ELSE s

\* the authority: everything up to the first "/", "?" or "#"
AuthorityOf(s) ==
  LET ends == {i \in 1..Len(s) : s[i] \in {"/", "?", "#"}}
  IN IF ends = {} THEN s ELSE SubSeq(s, 1, (CHOOSE i \in ends : \A j \in ends : i <= j) - 1)

\* the host of an authority: after the last "@" (userinfo), before the ":" of the port
HostOfAuthority(a) ==
  LET h == From(a, LastIndexOf(a, "@") + 1)
      i == IndexOf(h, ":")
  IN IF i = 0 THEN h ELSE SubSeq(h, 1, i - 1)

\* new URL(u): [ok |-> FALSE] when the constructor throws, else the hostname
ParseUrl(u) ==
  IF u \in {Null, Undefined} THEN [ok |-> FALSE, hostname |-> << >>]
  ELSE LET scheme == SchemeOf(u)
           rest == From(u, IndexOf(u, ":") + 1)
           specialHost == HostOfAuthority(AuthorityOf(SkipSlashes(rest)))
       IN IF scheme = Null THEN [ok |-> FALSE, hostname |-> << >>]
          ELSE IF scheme \in SpecialSchemes THEN (IF specialHost = << >> THEN [ok |-> FALSE, hostname |-> << >>] ELSE [ok |-> TRUE, hostname |-> specialHost])
          ELSE IF StartsWith(rest, <<"/", "/">>) THEN [ok |-> TRUE, hostname |-> HostOfAuthority(AuthorityOf(From(rest, 3)))]
          ELSE [ok |-> TRUE, hostname |-> << >>]

(***************************************************************************)
(* String constants of the program and of the modelled inputs              *)
(***************************************************************************)

\* "https://m.wefleet.com.br/mob/mfrastreadores"
DefaultBaseUrl == <<"h", "t", "t", "p", "s", ":", "/", "/", "m", ".", "w", "e", "f", "l", "e", "e", "t", ".", "c", "o", "m", ".", "b", "r", "/", "m", "o", "b", "/", "m", "f", "r", "a", "s", "t", "r", "e", "a", "d", "o", "r", "e", "s">>

\* "https://error-no-url-configured"
NoUrlConfigured == <<"h", "t", "t", "p", "s", ":", "/", "/", "e", "r", "r", "o", "r", "-", "n", "o", "-", "u", "r", "l", "-", "c", "o", "n", "f", "i", "g", "u", "r", "e", "d">>

\* "wefleet.com.br"
WefleetDomain == <<"w", "e", "f", "l", "e", "e", "t", ".", "c", "o", "m", ".", "b", "r">>

\* "m.wefleet.com.br"
MWefleet == <<"m", ".", "w", "e", "f", "l", "e", "e", "t", ".", "c", "o", "m", ".", "b", "r">>

\* "m2.wefleet.com.br"
M2Wefleet == <<"m", "2", ".", "w", "e", "f", "l", "e", "e", "t", ".", "c", "o", "m", ".", "b", "r">>

\* "?device="
DeviceParam == <<"?", "d", "e", "v", "i", "c", "e", "=">>

\* "https://m.example.com/app"
ExampleBaseUrl == <<"h", "t", "t", "p", "s", ":", "/", "/", "m", ".", "e", "x", "a", "m", "p", "l", "e", ".", "c", "o", "m", "/", "a", "p", "p">>

\* "http://localhost:8081"
LocalBaseUrl == <<"h", "t", "t", "p", ":", "/", "/", "l", "o", "c", "a", "l", "h", "o", "s", "t", ":", "8", "0", "8", "1">>

\* "https://wefleet.com.br.evil.org/app"
LookalikeBaseUrl == <<"h", "t", "t", "p", "s", ":", "/", "/", "w", "e", "f", "l", "e", "e", "t", ".", "c", "o", "m", ".", "b", "r", ".", "e", "v", "i", "l", ".", "o", "r", "g", "/", "a", "p", "p">>

\* "m.example.com/app"
SchemelessBaseUrl == <<"m", ".", "e", "x", "a", "m", "p", "l", "e", ".", "c", "o", "m", "/", "a", "p", "p">>

\* "https://"
HttpsPrefix == <<"h", "t", "t", "p", "s", ":", "/", "/">>

\* "abc123"
TokenAbc == <<"a", "b", "c", "1", "2", "3">>

\* "xyz789"
TokenXyz == <<"x", "y", "z", "7", "8", "9">>

\* "https://evil.com"
EvilUrl == <<"h", "t", "t", "p", "s", ":", "/", "/", "e", "v", "i", "l", ".", "c", "o", "m">>

\* "https://m.example.com/app/page"
ExamplePageUrl == <<"h", "t", "t", "p", "s", ":", "/", "/", "m", ".", "e", "x", "a", "m", "p", "l", "e", ".", "c", "o", "m", "/", "a", "p", "p", "/", "p", "a", "g", "e">>

\* "https://example.com/"
ExampleRootUrl == <<"h", "t", "t", "p", "s", ":", "/", "/", "e", "x", "a", "m", "p", "l", "e", ".", "c", "o", "m", "/">>

\* "https://m.example.com@evil.com/"
UserinfoUrl == <<"h", "t", "t", "p", "s", ":", "/", "/", "m", ".", "e", "x", "a", "m", "p", "l", "e", ".", "c", "o", "m", "@", "e", "v", "i", "l", ".", "c", "o", "m", "/">>

\* "/app/page"
RelativeUrl == <<"/", "a", "p", "p", "/", "p", "a", "g", "e">>

\* "about:blank"
AboutBlankUrl == <<"a", "b", "o", "u", "t", ":", "b", "l", "a", "n", "k">>

\* "evil.com.br"
EvilComBrHost == <<"e", "v", "i", "l", ".", "c", "o", "m", ".", "b", "r">>

\* "evil.org"
EvilOrgHost == <<"e", "v", "i", "l", ".", "o", "r", "g">>

\* "x.evil.org"
SubEvilOrgHost == <<"x", ".", "e", "v", "i", "l", ".", "o", "r", "g">>

\* "evillocalhost.com"
EvilLocalhostHost == <<"e", "v", "i", "l", "l", "o", "c", "a", "l", "h", "o", "s", "t", ".", "c", "o", "m">>

\* "localhost"
LocalhostHost == <<"l", "o", "c", "a", "l", "h", "o", "s", "t">>

\* "example.com"
ExampleHost == <<"e", "x", "a", "m", "p", "l", "e", ".", "c", "o", "m">>

\* "m.example.com"
MExampleHost == <<"m", ".", "e", "x", "a", "m", "p", "l", "e", ".", "c", "o", "m">>

\* "notexample.com"
NotExampleHost == <<"n", "o", "t", "e", "x", "a", "m", "p", "l", "e", ".", "c", "o", "m">>


\* "http://10.0.0.1/app"
IpBaseUrl == <<"h", "t", "t", "p", ":", "/", "/", "1", "0", ".", "0", ".", "0", ".", "1", "/", "a", "p", "p">>

\* "file:///index.html"
FileBaseUrl == <<"f", "i", "l", "e", ":", "/", "/", "/", "i", "n", "d", "e", "x", ".", "h", "t", "m", "l">>

\* "com.br"
ComBrHost == <<"c", "o", "m", ".", "b", "r">>

\* "evil.com"
EvilComHost == <<"e", "v", "i", "l", ".", "c", "o", "m">>

(***************************************************************************)
(* src/utils/config.ts                                                     *)
(***************************************************************************)

\* config.webview.baseUrl: expo extra, else the environment, else the literal
\* default; the sentinel is returned only for a falsy result
baseUrlOf(extraUrl, envUrl) ==
  LET cfgUrl == IF Truthy(extraUrl) THEN extraUrl ELSE IF Truthy(envUrl) THEN envUrl ELSE DefaultBaseUrl
  IN IF ~Truthy(cfgUrl) THEN NoUrlConfigured ELSE cfgUrl

\* the domains pushed in addition to the base domain
KnownSubdomains(hostname) == IF Includes(hostname, WefleetDomain) THEN << MWefleet, M2Wefleet >> ELSE << >>

\* a base domain cut from the front of the hostname: its first two labels
BaseDomainOfFirstLabels(hostname) ==
  LET labels == Split(hostname, ".")
  IN Join(IF Len(labels) <= 2 THEN labels ELSE SubSeq(labels, 1, 2), <<".">>)

\* hostname.split('.').slice(-2).join('.')
BaseDomainOf(hostname) == Join(SliceLast2(Split(hostname, ".")), <<".">>)

\* config.webview.allowedDomains for a configured base address
allowedDomainsOf(cfgBaseUrl) ==
  LET urlObj == ParseUrl(cfgBaseUrl)
  IN IF ~urlObj.ok
     THEN << WefleetDomain >>
     ELSE << BaseDomainOf(urlObj.hostname) >> \o KnownSubdomains(urlObj.hostname)

(***************************************************************************)
(* src/components/WebViewScreen.tsx: pure parts                            *)
(***************************************************************************)

\* DomainMatches with the suffix test missing its leading dot
DomainMatchesAnySuffix(hostname, domain) ==
  IF Includes(domain, <<".">>)
  THEN hostname = domain \/ EndsWith(hostname, domain)
  ELSE Includes(hostname, domain)

\* one entry of allowedDomains against a hostname
DomainMatches(hostname, domain) ==
  IF Includes(domain, <<".">>)
  THEN hostname = domain \/ EndsWith(hostname, <<".">> \o domain)
  ELSE Includes(hostname, domain)

\* allowedDomains.some(...)
isAllowedUrl(hostname, domains) == \E i \in 1..Len(domains) : DomainMatches(hostname, domains[i])

\* Evaluate with the catch branch blocking instead of allowing
EvaluateFailClosed(navUrl, domains) ==
  LET urlObj == ParseUrl(navUrl)
  IN IF urlObj.ok /\ isAllowedUrl(urlObj.hostname, domains) THEN "ALLOW" ELSE "BLOCK"

\* the guard's decision for a navigation target
Evaluate(navUrl, domains) ==
  LET urlObj == ParseUrl(navUrl)
  IN IF ~urlObj.ok THEN "ALLOW"
     ELSE IF isAllowedUrl(urlObj.hostname, domains) THEN "ALLOW" ELSE "BLOCK"

\* constructUrl with the template applied to whatever token it is given
constructUrlAlways(base, token) == base \o DeviceParam \o token

\* constructUrl(token) for the screen's baseUrl
constructUrl(base, token) == IF Truthy(token) THEN base \o DeviceParam \o token ELSE base

(***************************************************************************)
(* Bounds of the model                                                     *)
(***************************************************************************)

\* getFCMToken invocations explored per behaviour
MaxTokenCalls == 5

\* token-refresh events in flight at once
MaxTokenEvents == 2

\* manual refreshes explored per behaviour (webViewKey is a counter)
MaxWebViewKey == 2

\* length of the generated hostnames
MaxHostLen == 4

(***************************************************************************)
(* Program constants and messages                                          *)
(***************************************************************************)

MAX_TOKEN_RETRIES == 3

ErrRetrying(c) == IF c = 0 THEN "Error getting FCM token. Retrying... (1/3)" ELSE "Error getting FCM token. Retrying... (2/3)"

ErrTokenFailed == "Failed to get FCM token after multiple attempts. Some features may not work properly."

ErrConfig == "App configuration error: WebView URL is not set. Please contact support."

ErrLoadFailed == "Failed to load the page. Please check your connection and try again."

ToastExternal == "Navigation to external URLs is not allowed"

NoError == "null"

\* error.includes('App configuration error'), over the messages the screen sets
IsConfigErrorMessage(e) == e = ErrConfig

(***************************************************************************)
(* Inputs                                                                  *)
(***************************************************************************)

\* device tokens the push transport may issue
Tokens == {TokenAbc, TokenXyz}

\* (expo extra webviewBaseUrl, WEBVIEW_BASE_URL, baseUrl prop) of a deployment
Deployments == {<<Null, Null, Undefined>>, <<ExampleBaseUrl, Null, Undefined>>, <<ExampleBaseUrl, Null, NoUrlConfigured>>, <<ExampleBaseUrl, Null, << >> >>}

\* every hostname of at most MaxHostLen characters over {a, .} that does not
\* start with a dot and has no two dots in a row
GenHosts == {h \in UNION {[1..n -> {"a", "."}] : n \in 1..MaxHostLen} : h[1] # "." /\ \A i \in 1..(Len(h) - 1) : ~(h[i] = "." /\ h[i + 1] = ".")}

\* named hostnames: inside, beside and outside the modelled base domains
NamedHosts == {MWefleet, ComBrHost, EvilComBrHost, EvilOrgHost, SubEvilOrgHost, ExampleHost, MExampleHost, NotExampleHost, LocalhostHost, EvilLocalhostHost}

\* navigation targets that new URL() rejects: a relative reference, a scheme
\* without a host, an address without a scheme
UnparseableUrls == {RelativeUrl, HttpsPrefix, SchemelessBaseUrl}

\* navigation targets the hosted content may report
NavUrls == {HttpsPrefix \o h : h \in GenHosts \cup NamedHosts} \cup {ExamplePageUrl, UserinfoUrl, AboutBlankUrl} \cup UnparseableUrls

\* deployments of the navigation guard: configured base addresses with generated
\* and named hosts, an unparseable one, the default, and a baseUrl prop that
\* differs from the configured address
NavDeployments == {<<HttpsPrefix \o h, Null, Undefined>> : h \in GenHosts} \cup {<<b, Null, Undefined>> : b \in {ExampleBaseUrl, LookalikeBaseUrl, SchemelessBaseUrl, IpBaseUrl, FileBaseUrl}} \cup {<<Null, Null, Undefined>>, <<Null, LocalBaseUrl, Undefined>>, <<Null, Null, ExampleBaseUrl>>}

\* the token issued in the navigation-guard specification
NavTokens == {TokenAbc}

(***************************************************************************)
(* Push payloads and the values they carry                                 *)
(*                                                                         *)
(* A JavaScript value is a record: t is its typeof, v is what String()     *)
(* renders it as.  A payload is a RemoteMessage: hasData and data are its  *)
(* data block, hasNotification, title and body its notification block.     *)
(* Of the vehicle fields placa, end, vel, dt, ign and id, which the code   *)
(* treats line by line alike, the model carries placa and id.              *)
(***************************************************************************)

\* a string value
Str(s) == [t |-> "string", v |-> s]

\* a number value, by its decimal rendering
Num(s) == [t |-> "number", v |-> s]

\* the value of a property that is not there
Undef == [t |-> "undefined", v |-> "undefined"]

\* what reading a property of undefined produces
TypeErrorVal == [t |-> "TypeError", v |-> "TypeError"]

\* truthiness of a value in a condition
JsTruthy(x) == (x.t = "string" /\ x.v # "") \/ (x.t = "number" /\ x.v # "0") \/ x.t = "object"

\* typeof x === 'string'
IsString(x) == x.t = "string"

\* typeof x === 'string' ? x : String(x)
StringOf(x) == IF IsString(x) THEN x ELSE Str(x.v)

\* x || y; an operand whose evaluation threw makes the expression throw
Or(x, y) == IF x = TypeErrorVal \/ JsTruthy(x) THEN x ELSE y

\* the keys of a data block the router reads
DataKeys == {"lat", "lon", "latitude", "longitude", "screen", "title", "message", "placa", "id"}

\* the keys of the params handed to router.push
ParamKeys == {"latitude", "longitude", "title", "message", "placa", "id"}

\* a data block, or a params object, without any key
NoData == [k \in DataKeys |-> Undef]
NoParams == [k \in ParamKeys |-> Undef]

\* notification.data.k; a TypeError when the payload has no data block
DataField(n, k) == IF n.hasData THEN n.data[k] ELSE TypeErrorVal

\* notification.notification.title and .body; a TypeError without the block
NotificationTitle(n) == IF n.hasNotification THEN n.title ELSE TypeErrorVal
NotificationBody(n) == IF n.hasNotification THEN n.body ELSE TypeErrorVal

\* notification.notification?.title and ?.body
OptionalTitle(n) == IF n.hasNotification THEN n.title ELSE Undef
OptionalBody(n) == IF n.hasNotification THEN n.body ELSE Undef

\* Object.keys(notification.data).length > 0
HasDataKeys(n) == \E k \in DataKeys : n.data[k] # Undef

\* whether building these params read a property of undefined
ParamsThrew(params) == \E k \in ParamKeys : params[k] = TypeErrorVal

\* no router.push happened
NoDest == [via |-> "none", path |-> Undef, params |-> NoParams, threw |-> FALSE]

\* router.push({pathname: '/map', params})
MapDest(via, params) == [via |-> via, path |-> Str("/map"), params |-> params, threw |-> ParamsThrew(params)]

(***************************************************************************)
(* The notification router (root layout) and the in-app banner             *)
(***************************************************************************)

\* the vehicle fields of the map branches: copied when they are strings
StringField(n, k) == IF IsString(DataField(n, k)) THEN DataField(n, k) ELSE Undef

\* the vehicle fields of navigateWithNotificationData: copied when truthy
TruthyField(n, k) == IF JsTruthy(DataField(n, k)) THEN DataField(n, k) ELSE Undef

\* the title and message of the two map branches of handleNotificationNavigation
MapTitle(n) == IF IsString(DataField(n, "title")) THEN DataField(n, "title") ELSE Or(OptionalTitle(n), Str("Localização"))
MapMessage(n) == IF IsString(DataField(n, "message")) THEN DataField(n, "message") ELSE Or(OptionalBody(n), Str(""))

\* the params of a map branch whose coordinates are data[latKey], data[lonKey]
MapParams(n, latKey, lonKey) ==
  [k \in ParamKeys |->
     IF k = "latitude" THEN StringOf(DataField(n, latKey))
     ELSE IF k = "longitude" THEN StringOf(DataField(n, lonKey))
     ELSE IF k = "title" THEN MapTitle(n)
     ELSE IF k = "message" THEN MapMessage(n)
     ELSE StringField(n, k)]

\* the title of navigateWithNotificationData
FallbackTitle(n) == Or(OptionalTitle(n), Str("Notificação"))

\* navigateWithNotificationData with a title read without optional chaining
navigateWithNotificationDataStrict(n) ==
  MapDest("fallback", [k \in ParamKeys |-> IF k = "title" THEN Or(NotificationTitle(n), Str("Notificação")) ELSE Undef])

\* navigateWithNotificationData: the map screen with whatever the payload has
navigateWithNotificationData(n) ==
  MapDest("fallback",
    [k \in ParamKeys |->
       IF k = "title" THEN FallbackTitle(n)
       ELSE IF k = "message" THEN Or(OptionalBody(n), Str(""))
       ELSE IF ~n.hasData THEN Undef
       ELSE IF k = "latitude" THEN (IF JsTruthy(n.data["lat"]) THEN n.data["lat"] ELSE TruthyField(n, "latitude"))
       ELSE IF k = "longitude" THEN (IF JsTruthy(n.data["lon"]) THEN n.data["lon"] ELSE TruthyField(n, "longitude"))
       ELSE TruthyField(n, k)])

\* the screen branch: router.push(screen), '/' for a screen that is no string
ScreenDest(n) == [via |-> "screen", path |-> IF IsString(n.data["screen"]) THEN n.data["screen"] ELSE Str("/"), params |-> NoParams, threw |-> FALSE]

\* the try block with the screen branch tested before the coordinates
NotificationNavigationScreenFirst(n) ==
  IF n.hasData /\ HasDataKeys(n)
  THEN IF JsTruthy(n.data["screen"]) THEN ScreenDest(n)
       ELSE IF JsTruthy(n.data["lat"]) /\ JsTruthy(n.data["lon"]) THEN MapDest("latlon", MapParams(n, "lat", "lon"))
       ELSE IF JsTruthy(n.data["latitude"]) /\ JsTruthy(n.data["longitude"]) THEN MapDest("legacy", MapParams(n, "latitude", "longitude"))
       ELSE navigateWithNotificationData(n)
  ELSE navigateWithNotificationData(n)

\* the try block of handleNotificationNavigation
NotificationNavigationTry(n) ==
  IF n.hasData /\ HasDataKeys(n)
  THEN IF JsTruthy(n.data["lat"]) /\ JsTruthy(n.data["lon"]) THEN MapDest("latlon", MapParams(n, "lat", "lon"))
       ELSE IF JsTruthy(n.data["latitude"]) /\ JsTruthy(n.data["longitude"]) THEN MapDest("legacy", MapParams(n, "latitude", "longitude"))
       ELSE IF JsTruthy(n.data["screen"]) THEN ScreenDest(n)
       ELSE navigateWithNotificationData(n)
  ELSE navigateWithNotificationData(n)

\* handleNotificationNavigation: the try block, its catch falling back to
\* navigateWithNotificationData, and the inner catch swallowing what that throws
NotificationNavigationDest(n) ==
  LET tried == NotificationNavigationTry(n)
      fallback == navigateWithNotificationData(n)
  IN IF ~tried.threw THEN tried
     ELSE IF ~fallback.threw THEN fallback
     ELSE NoDest

\* locationData of the foreground handler
ForegroundLocationData(n) ==
  [k \in ParamKeys |->
     IF k = "title" THEN NotificationTitle(n)
     ELSE IF k = "message" THEN NotificationBody(n)
     ELSE IF ~n.hasData THEN Undef
     ELSE IF k = "latitude" THEN Or(n.data["lat"], n.data["latitude"])
     ELSE IF k = "longitude" THEN Or(n.data["lon"], n.data["longitude"])
     ELSE n.data[k]]

\* the banner: the state of InAppNotification
NoBanner == [visible |-> FALSE, title |-> Str(""), body |-> Str(""), hasData |-> FALSE, data |-> NoParams]

\* the banner after showNotification(title, body, locationData) of the
\* foreground handler; a payload without notification block shows nothing
ForegroundBanner(n, banner) ==
  IF n.hasNotification
  THEN [visible |-> TRUE, title |-> Or(n.title, Str("Nova Notificação")), body |-> Or(n.body, Str("Você recebeu uma nova notificação")), hasData |-> TRUE, data |-> ForegroundLocationData(n)]
  ELSE banner

\* the params handleViewDetails builds from the banner's title, body and data;
\* data has no lat or lon key, so only the deletions of falsy coordinates act
ViewDetailsParams(banner) ==
  [k \in ParamKeys |->
     IF k = "title" THEN Or(banner.title, Str("Localização"))
     ELSE IF k = "message" THEN Or(banner.body, Or(banner.data["message"], Str("")))
     ELSE IF k \in {"latitude", "longitude"} THEN (IF JsTruthy(banner.data[k]) THEN banner.data[k] ELSE Undef)
     ELSE banner.data[k]]

\* handleViewDetails: the map screen whenever the banner holds data
ViewDetailsDest(banner) == IF banner.hasData THEN MapDest("viewDetails", ViewDetailsParams(banner)) ELSE NoDest

(***************************************************************************)
(* Notification permission and getFCMToken (messaging.ts)                  *)
(*                                                                         *)
(* permission is the operating system's record: "unknown" until the user   *)
(* has answered a prompt, then "granted" or "denied".  answer is what the  *)
(* user, or the system on the user's behalf, answers to a request.         *)
(***************************************************************************)

\* Platform.OS with the API level: iOS, Android 13 or higher, older Android
Platforms == {"ios", "android13", "androidOld"}

PermissionStates == {"unknown", "granted", "denied"}

\* requestNotificationPermission(showToastOnDenied): whether it returns true,
\* the permission afterwards, the calls of the system's request API, and the
\* permission toasts it schedules
PermissionRequest(platform, permission, answer, showToastOnDenied) ==
  LET after == IF platform = "androidOld" THEN permission
               ELSE IF platform = "ios" /\ permission # "unknown" THEN permission
               ELSE IF permission = "granted" THEN "granted"
               ELSE answer
      granted == platform = "androidOld" \/ after = "granted"
  IN [granted |-> granted,
      permission |-> after,
      requests |-> IF platform = "androidOld" THEN 0 ELSE 1,
      toasts |-> IF ~granted /\ showToastOnDenied THEN 1 ELSE 0]

\* getFCMToken(forcePermissionRequest, showToastOnDenied), issued stands for
\* what getToken resolves to (null when it throws)
FCMToken(platform, permission, forcePermissionRequest, showToastOnDenied, answer, issued) ==
  LET asked == PermissionRequest(platform, permission, answer, showToastOnDenied)
      held == permission = "granted"
      requested == forcePermissionRequest \/ (platform = "android13" /\ ~held)
      hasPermission == IF requested THEN asked.granted
                       ELSE IF platform = "androidOld" THEN TRUE
                       ELSE held
  IN [token |-> IF hasPermission THEN issued ELSE Null,
      permission |-> IF requested THEN asked.permission ELSE permission,
      requests |-> IF requested THEN asked.requests ELSE 0,
      toasts |-> (IF requested THEN asked.toasts ELSE 0) + (IF ~hasPermission /\ showToastOnDenied THEN 1 ELSE 0)]

(***************************************************************************)
(* openSocial                                                              *)
(***************************************************************************)

\* the string literals of openSocial, and the text of undefined and null in a
\* template literal
SocialText ==
  [facebook |-> <<"f", "a", "c", "e", "b", "o", "o", "k">>,
   instagram |-> <<"i", "n", "s", "t", "a", "g", "r", "a", "m">>,
   twitter |-> <<"t", "w", "i", "t", "t", "e", "r">>,
   x |-> <<"x">>,
   linkedin |-> <<"l", "i", "n", "k", "e", "d", "i", "n">>,
   youtube |-> <<"y", "o", "u", "t", "u", "b", "e">>,
   fbProfile |-> <<"f", "b", ":", "/", "/", "p", "r", "o", "f", "i", "l", "e", "/">>,
   instagramUser |-> <<"i", "n", "s", "t", "a", "g", "r", "a", "m", ":", "/", "/", "u", "s", "e", "r", "?", "u", "s", "e", "r", "n", "a", "m", "e", "=">>,
   twitterUser |-> <<"t", "w", "i", "t", "t", "e", "r", ":", "/", "/", "u", "s", "e", "r", "?", "s", "c", "r", "e", "e", "n", "_", "n", "a", "m", "e", "=">>,
   facebookWeb |-> <<"h", "t", "t", "p", "s", ":", "/", "/", "w", "w", "w", ".", "f", "a", "c", "e", "b", "o", "o", "k", ".", "c", "o", "m">>,
   instagramWeb |-> <<"h", "t", "t", "p", "s", ":", "/", "/", "w", "w", "w", ".", "i", "n", "s", "t", "a", "g", "r", "a", "m", ".", "c", "o", "m">>,
   twitterWeb |-> <<"h", "t", "t", "p", "s", ":", "/", "/", "t", "w", "i", "t", "t", "e", "r", ".", "c", "o", "m">>,
   xWeb |-> <<"h", "t", "t", "p", "s", ":", "/", "/", "x", ".", "c", "o", "m">>,
   linkedinWeb |-> <<"h", "t", "t", "p", "s", ":", "/", "/", "w", "w", "w", ".", "l", "i", "n", "k", "e", "d", "i", "n", ".", "c", "o", "m">>,
   youtubeWeb |-> <<"h", "t", "t", "p", "s", ":", "/", "/", "w", "w", "w", ".", "y", "o", "u", "t", "u", "b", "e", ".", "c", "o", "m">>,
   www |-> <<"h", "t", "t", "p", "s", ":", "/", "/", "w", "w", "w", ".">>,
   dotCom |-> <<".", "c", "o", "m">>,
   slash |-> <<"/">>,
   undefined |-> <<"u", "n", "d", "e", "f", "i", "n", "e", "d">>,
   null |-> <<"n", "u", "l", "l">>]

\* String.prototype.toLowerCase
ToLowerCase(s) ==
  LET upper == <<"A", "B", "C", "D", "E", "F", "G", "H", "I", "J", "K", "L", "M", "N", "O", "P", "Q", "R", "S", "T", "U", "V", "W", "X", "Y", "Z">>
      lower == <<"a", "b", "c", "d", "e", "f", "g", "h", "i", "j", "k", "l", "m", "n", "o", "p", "q", "r", "s", "t", "u", "v", "w", "x", "y", "z">>
  IN [i \in 1..Len(s) |-> IF \E k \in 1..26 : upper[k] = s[i] THEN lower[CHOOSE k \in 1..26 : upper[k] = s[i]] ELSE s[i]]

\* ${value} in a template literal
Interpolated(value) == IF value = Undefined THEN SocialText.undefined ELSE IF value = Null THEN SocialText.null ELSE value

ToastInvalidSocial == "Invalid social media parameters"

\* `Could not open ${type}`: the text before the type
ToastCouldNotOpen == "Could not open "

ToastSocialFailed == "Failed to open social media"

\* the address chosen by the switch on type.toLowerCase()
socialUrl(type, username, url) ==
  LET lower == ToLowerCase(type)
  IN IF lower = SocialText.facebook THEN (IF Truthy(username) THEN SocialText.fbProfile \o Interpolated(username) ELSE IF Truthy(url) THEN url ELSE SocialText.facebookWeb)
     ELSE IF lower = SocialText.instagram THEN (IF Truthy(username) THEN SocialText.instagramUser \o Interpolated(username) ELSE IF Truthy(url) THEN url ELSE SocialText.instagramWeb)
     ELSE IF lower \in {SocialText.twitter, SocialText.x} THEN (IF Truthy(username) THEN SocialText.twitterUser \o Interpolated(username) ELSE IF Truthy(url) THEN url ELSE SocialText.twitterWeb)
     ELSE IF lower = SocialText.linkedin THEN (IF Truthy(url) THEN url ELSE SocialText.linkedinWeb)
     ELSE IF lower = SocialText.youtube THEN (IF Truthy(url) THEN url ELSE SocialText.youtubeWeb)
     ELSE IF Truthy(url) THEN url ELSE << >>

\* the fallback address when canOpenURL says no: the first condition of the
\* conditional chain is `url || (type is facebook && username)`, because ?:
\* binds weaker than ||
webUrl(type, username, url) ==
  LET lower == ToLowerCase(type)
  IN IF Truthy(url) \/ (lower = SocialText.facebook /\ Truthy(username)) THEN SocialText.facebookWeb \o SocialText.slash \o Interpolated(username)
     ELSE IF lower = SocialText.instagram /\ Truthy(username) THEN SocialText.instagramWeb \o SocialText.slash \o Interpolated(username)
     ELSE IF lower = SocialText.twitter /\ Truthy(username) THEN SocialText.twitterWeb \o SocialText.slash \o Interpolated(username)
     ELSE IF lower = SocialText.x /\ Truthy(username) THEN SocialText.xWeb \o SocialText.slash \o Interpolated(username)
     ELSE SocialText.www \o lower \o SocialText.dotCom

\* openSocial(params): what it opened and which advisory it showed; can is what
\* Linking.canOpenURL does with the chosen address: resolves true, resolves
\* false, or rejects; reading toLowerCase of a missing type throws into the
\* outer catch
openSocial(params, can) ==
  IF params.type \in {Undefined, Null} THEN [opened |-> Null, toast |-> ToastSocialFailed]
  ELSE IF ~Truthy(socialUrl(params.type, params.username, params.url)) THEN [opened |-> Null, toast |-> ToastInvalidSocial]
  ELSE IF can = "rejected" THEN [opened |-> Null, toast |-> ToastCouldNotOpen]
  ELSE IF can = "supported" THEN [opened |-> socialUrl(params.type, params.username, params.url), toast |-> "none"]
  ELSE [opened |-> webUrl(params.type, params.username, params.url), toast |-> "none"]

\* data.data.params of an openSocial event that carries none
NoSocialParams == [type |-> Undefined, username |-> Undefined, url |-> Undefined]

\* data.data.params of openSocial events: recognised types (one in mixed case),
\* an unrecognised one and a missing one, with and without username and url
SocialParams ==
  LET types == {SocialText.facebook, <<"I", "n", "s", "t", "a", "g", "r", "a", "m">>, SocialText.x, <<"t", "i", "k", "t", "o", "k">>, Undefined}
      usernames == {Undefined, <<"u">>}
      urls == {Undefined, <<"h", "t", "t", "p", "s", ":", "/", "/", "s", ".", "e", "x", "a", "m", "p", "l", "e", "/", "p">>}
  IN {[type |-> t, username |-> u, url |-> l] : t \in types, u \in usernames, l \in urls}

CanOpenOutcomes == {"supported", "unsupported", "rejected"}

(***************************************************************************)
(* State                                                                   *)
(***************************************************************************)

VARIABLES extra, env, propBaseUrl, mounted, loading, url, refreshing, error, tokenRetryCount, fcmToken, webViewLoading, webViewCanGoBack, showRefreshButton, webViewKey, backHandlerCanGoBack, chains, tokenEvents, tokenCalls, tokenGot, fx

\* the root layout: the platform and its notification permission, the push
\* payload of this run, the state of initFCM, the in-app banner, and the
\* effects of the last root-layout step
VARIABLES platform, permission, payload, fcmInit, banner, pfx

\* the Toast component of the root layout, its pending auto-hide timers and
\* the time the current message has been shown
VARIABLES toast

vars == <<extra, env, propBaseUrl, mounted, loading, url, refreshing, error, tokenRetryCount, fcmToken, webViewLoading, webViewCanGoBack, showRefreshButton, webViewKey, backHandlerCanGoBack, chains, tokenEvents, tokenCalls, tokenGot, fx, platform, permission, payload, fcmInit, banner, pfx, toast>>

pushVars == <<platform, permission, payload, fcmInit, banner, pfx, toast>>

screenVars == <<extra, env, propBaseUrl, mounted, loading, url, refreshing, error, tokenRetryCount, fcmToken, webViewLoading, webViewCanGoBack, showRefreshButton, webViewKey, backHandlerCanGoBack, chains, tokenEvents, tokenCalls, tokenGot, fx>>

configVars == <<extra, env, propBaseUrl>>

\* config.webview.baseUrl of this deployment
configBaseUrl == baseUrlOf(extra, env)

\* the baseUrl the component works with: the prop, defaulted to the configured one
baseUrl == IF propBaseUrl = Undefined THEN configBaseUrl ELSE propBaseUrl

\* config.webview.allowedDomains of this deployment
allowedDomains == allowedDomainsOf(configBaseUrl)

\* !baseUrl || baseUrl === 'https://error-no-url-configured'
BaseUrlInvalid == ~Truthy(baseUrl) \/ baseUrl = NoUrlConfigured

\* what the component renders: the first matching return of the render body
View ==
  IF loading \/ ~Truthy(url) THEN "loading"
  ELSE IF error # NoError /\ ~Truthy(url) THEN (IF IsConfigErrorMessage(error) THEN "configError" ELSE "connectionError")
  ELSE "webview"

\* webViewRef.current is set exactly while the WebView element is rendered
WebViewMounted == mounted # "unmounted" /\ View = "webview"

\* SettersApply of a component whose state setters still act after its teardown
SettersAlwaysApply == mounted \in {"constructed", "mounted", "unmounted"}

\* whether a call of one of the component's state setters changes its state:
\* the updates of an unmounted component are dropped
SettersApply == mounted # "unmounted"

\* no message: the msg of a step that handled none
NoMessage == [json |-> FALSE, type |-> "none", url |-> Null, hasData |-> FALSE, action |-> "none", params |-> NoSocialParams]

\* the effects of one step on the hosted content and the user, and its inputs
NoFx == [op |-> "none", in |-> Null, evBack |-> FALSE, held |-> FALSE, token |-> Null, decision |-> "none", stop |-> FALSE, toast |-> "none", recovery |-> "none", target |-> Null, reload |-> 0, keyBump |-> FALSE, acquire |-> FALSE, launch |-> "none", handled |-> FALSE, social |-> NoSocialParams, can |-> "none", opened |-> Null, msg |-> NoMessage, caught |-> FALSE]

(***************************************************************************)
(* Construction                                                            *)
(***************************************************************************)

\* a payload without data and without notification block
EmptyPayload == [hasData |-> FALSE, data |-> NoData, hasNotification |-> FALSE, title |-> Undef, body |-> Undef]

\* the effects of one root-layout step: the destination pushed, whether the
\* banner was shown, and for token requests the permission before the call, the
\* token returned, the calls of the system's request API and the toasts scheduled
NoPfx == [op |-> "none", dest |-> NoDest, shown |-> FALSE, force |-> FALSE, before |-> "unknown", token |-> Null, requests |-> 0, toasts |-> 0]

\* the Toast before it is mounted: globalToast is null, nothing is visible, no
\* timer is pending
NoToast == [mounted |-> FALSE, visible |-> FALSE, message |-> "", actionText |-> "none", duration |-> 0, shownFor |-> 0, timers |-> << >>, op |-> "none"]

\* the root layout of the screen specifications: permission granted, no payload
PushIdle ==
  /\ platform = "android13"
  /\ permission = "granted"
  /\ payload = EmptyPayload
  /\ fcmInit = "pending"
  /\ banner = NoBanner
  /\ pfx = NoPfx
  /\ toast = NoToast

\* the component after its first render, before its effect has run
ScreenInit(deployments) ==
  /\ \E d \in deployments : extra = d[1] /\ env = d[2] /\ propBaseUrl = d[3]
  /\ mounted = "constructed"
  /\ loading = TRUE
  /\ url = Null
  /\ refreshing = FALSE
  /\ error = NoError
  /\ tokenRetryCount = 0
  /\ fcmToken = Null
  /\ webViewLoading = TRUE
  /\ webViewCanGoBack = FALSE
  /\ showRefreshButton = FALSE
  /\ webViewKey = 0
  /\ backHandlerCanGoBack = FALSE
  /\ chains = {}
  /\ tokenEvents = << >>
  /\ tokenCalls = 0
  /\ tokenGot = FALSE
  /\ fx = NoFx

\* the screen after its first render beside an idle root layout
InitFor(deployments) == ScreenInit(deployments) /\ PushIdle

Init == InitFor(Deployments)

(***************************************************************************)
(* The mount effect, initWebView and getTokenWithRetry                     *)
(*                                                                         *)
(* chains holds the async calls in flight: each is a call of initWebView   *)
(* or refreshWebView, suspended in getTokenWithRetry (at getFCMToken or at *)
(* the 1-second timer) or, for initWebView, in its finally block.  c is    *)
(* the tokenRetryCount its getTokenWithRetry closure captured.             *)
(***************************************************************************)

\* the chain initWebView starts when the effect runs with tokenRetryCount = c:
\* it throws before any token call when the base address is not configured
StartedChain(c) == IF BaseUrlInvalid THEN [caller |-> "init", c |-> c, pc |-> "finally"] ELSE [caller |-> "init", c |-> c, pc |-> "getToken"]

\* getFCMToken invocations made when the effect runs
StartedCalls == IF BaseUrlInvalid THEN 0 ELSE 1

\* useEffect(..., [baseUrl, initWebView, constructUrl]) running after the first render
Mount ==
  /\ mounted = "constructed"
  /\ mounted' = "mounted"
  /\ loading' = TRUE
  /\ chains' = {StartedChain(tokenRetryCount)}
  /\ tokenCalls' = tokenCalls + StartedCalls
  /\ backHandlerCanGoBack' = webViewCanGoBack
  /\ IF BaseUrlInvalid
     THEN error' = ErrConfig /\ url' = Null /\ showRefreshButton' = TRUE
     ELSE UNCHANGED <<error, url, showRefreshButton>>
  /\ fx' = [NoFx EXCEPT !.op = "mount", !.acquire = ~BaseUrlInvalid]
  /\ UNCHANGED <<configVars, refreshing, tokenRetryCount, fcmToken, webViewLoading, webViewCanGoBack, webViewKey, tokenEvents, tokenGot>>

\* whether a getTokenWithRetry closure that captured tokenRetryCount = c retries
RetriesAfterFailure(c) == c < MAX_TOKEN_RETRIES - 1

\* the catch branch of getTokenWithRetry below the retry limit: it bumps
\* tokenRetryCount and sleeps; the bump re-renders, which re-creates initWebView
\* and so re-runs the effect, which calls initWebView again
RetryScheduled(ch) ==
  /\ tokenCalls + StartedCalls <= MaxTokenCalls
  /\ tokenRetryCount' = tokenRetryCount + 1
  /\ error' = ErrRetrying(ch.c)
  /\ chains' = (chains \ {ch}) \cup {[ch EXCEPT !.pc = "sleep"], StartedChain(tokenRetryCount + 1)}
  /\ loading' = TRUE
  /\ tokenCalls' = tokenCalls + StartedCalls
  /\ backHandlerCanGoBack' = webViewCanGoBack
  /\ fx' = [NoFx EXCEPT !.op = IF ch.caller = "init" THEN "initRetry" ELSE "refreshRetry"]
  /\ UNCHANGED <<fcmToken, url, showRefreshButton, webViewKey, refreshing, tokenGot>>

\* initWebView after getTokenWithRetry returned token (a token or null)
InitContinues(ch, token) ==
  /\ url' = constructUrl(baseUrl, token)
  /\ showRefreshButton' = ~Truthy(token)
  /\ chains' = (chains \ {ch}) \cup {[ch EXCEPT !.pc = "finally"]}
  /\ fx' = [NoFx EXCEPT !.op = "initToken", !.in = token]
  /\ UNCHANGED <<webViewKey, refreshing>>

\* webViewRef.current.reload() calls made when refreshWebView reaches its reload
RefreshReloads == IF WebViewMounted THEN 1 ELSE 0

\* refreshWebView after getTokenWithRetry returned token (a token or null)
RefreshContinues(ch, token) ==
  /\ url' = IF Truthy(token) THEN constructUrl(baseUrl, token) ELSE url
  /\ webViewKey' = webViewKey + 1
  /\ refreshing' = FALSE
  /\ chains' = chains \ {ch}
  /\ fx' = [NoFx EXCEPT !.op = "refreshDone", !.in = token, !.keyBump = TRUE, !.reload = RefreshReloads, !.acquire = TRUE]
  /\ UNCHANGED showRefreshButton

\* the continuation of chain ch when getFCMToken resolves after the teardown:
\* it takes the same path, its setter calls are dropped, and no render follows
\* that could re-run the effect
ResolvedAfterTeardown(ch, result) ==
  /\ chains' = IF ~Truthy(result) /\ RetriesAfterFailure(ch.c) THEN (chains \ {ch}) \cup {[ch EXCEPT !.pc = "sleep"]}
               ELSE IF ch.caller = "init" THEN (chains \ {ch}) \cup {[ch EXCEPT !.pc = "finally"]}
               ELSE chains \ {ch}
  /\ fx' = [NoFx EXCEPT !.op = "afterTeardown", !.in = result]
  /\ UNCHANGED <<loading, url, refreshing, error, tokenRetryCount, fcmToken, showRefreshButton, webViewKey, backHandlerCanGoBack, tokenCalls, tokenGot>>

\* getFCMToken resolves (result is a token, or null for every failure) inside
\* the getTokenWithRetry call of chain ch
getTokenResolved(ch, result) ==
  /\ ch \in chains
  /\ ch.pc = "getToken"
  /\ IF ~SettersApply
     THEN ResolvedAfterTeardown(ch, result)
     ELSE IF ~Truthy(result) /\ RetriesAfterFailure(ch.c)
     THEN RetryScheduled(ch)
     ELSE /\ error' = IF Truthy(result) THEN NoError ELSE ErrTokenFailed
          /\ fcmToken' = IF Truthy(result) THEN result ELSE fcmToken
          /\ tokenGot' = (tokenGot \/ Truthy(result))
          /\ IF ch.caller = "init" THEN InitContinues(ch, result) ELSE RefreshContinues(ch, result)
          /\ UNCHANGED <<loading, tokenRetryCount, tokenCalls, backHandlerCanGoBack>>
  /\ UNCHANGED <<configVars, mounted, webViewLoading, webViewCanGoBack, tokenEvents>>

\* the 1-second timer of a failed attempt fires: the closure calls itself again
RetryTimer(ch) ==
  /\ ch \in chains
  /\ ch.pc = "sleep"
  /\ tokenCalls < MaxTokenCalls
  /\ chains' = (chains \ {ch}) \cup {[ch EXCEPT !.pc = "getToken"]}
  /\ tokenCalls' = tokenCalls + 1
  /\ fx' = [NoFx EXCEPT !.op = "retryTimer", !.acquire = TRUE]
  /\ UNCHANGED <<configVars, mounted, loading, url, refreshing, error, tokenRetryCount, fcmToken, webViewLoading, webViewCanGoBack, showRefreshButton, webViewKey, backHandlerCanGoBack, tokenEvents, tokenGot>>

\* the finally block of initWebView: after SplashScreen.hideAsync, setLoading(false)
InitFinally(ch) ==
  /\ ch \in chains
  /\ ch.pc = "finally"
  /\ chains' = chains \ {ch}
  /\ loading' = IF SettersApply THEN FALSE ELSE loading
  /\ fx' = [NoFx EXCEPT !.op = IF SettersApply THEN "initDone" ELSE "afterTeardown"]
  /\ UNCHANGED <<configVars, mounted, url, refreshing, error, tokenRetryCount, fcmToken, webViewLoading, webViewCanGoBack, showRefreshButton, webViewKey, backHandlerCanGoBack, tokenEvents, tokenCalls, tokenGot>>

(***************************************************************************)
(* Teardown                                                                *)
(***************************************************************************)

\* the cleanup of the mount effect when the screen is unmounted:
\* backHandler.remove() and unsubscribe(); token-refresh events still in
\* flight have no listener left; the async calls in flight are not cancelled
Unmount ==
  /\ mounted = "mounted"
  /\ mounted' = "unmounted"
  /\ tokenEvents' = << >>
  /\ fx' = [NoFx EXCEPT !.op = "unmount"]
  /\ UNCHANGED <<configVars, loading, url, refreshing, error, tokenRetryCount, fcmToken, webViewLoading, webViewCanGoBack, showRefreshButton, webViewKey, backHandlerCanGoBack, chains, tokenCalls, tokenGot>>

(***************************************************************************)
(* Token-refresh events                                                    *)
(***************************************************************************)

\* the push transport emits a token-refresh event to the registered listener
TokenRefreshEmitted(t) ==
  /\ mounted = "mounted"
  /\ Len(tokenEvents) < MaxTokenEvents
  /\ tokenEvents' = Append(tokenEvents, t)
  /\ fx' = [NoFx EXCEPT !.op = "tokenEmitted", !.in = t]
  /\ UNCHANGED <<configVars, mounted, loading, url, refreshing, error, tokenRetryCount, fcmToken, webViewLoading, webViewCanGoBack, showRefreshButton, webViewKey, backHandlerCanGoBack, chains, tokenCalls, tokenGot>>

\* TokenRefreshReloads of a callback that reloads both before and after setUrl
TokenRefreshReloadsTwice == IF WebViewMounted THEN 2 ELSE 0

\* webViewRef.current.reload() calls made by the onTokenRefresh callback
TokenRefreshReloads == IF WebViewMounted THEN 1 ELSE 0

\* the onTokenRefresh callback runs for the oldest event in flight
TokenRefreshed ==
  /\ mounted = "mounted"
  /\ Len(tokenEvents) > 0
  /\ tokenEvents' = Tail(tokenEvents)
  /\ fcmToken' = Head(tokenEvents)
  /\ url' = constructUrl(baseUrl, Head(tokenEvents))
  /\ fx' = [NoFx EXCEPT !.op = "tokenRefresh", !.in = Head(tokenEvents), !.reload = TokenRefreshReloads]
  /\ UNCHANGED <<configVars, mounted, loading, refreshing, error, tokenRetryCount, webViewLoading, webViewCanGoBack, showRefreshButton, webViewKey, backHandlerCanGoBack, chains, tokenCalls, tokenGot>>

(***************************************************************************)
(* Manual refresh                                                          *)
(***************************************************************************)

\* RefreshAcquires of a refresh that asks for a token whether or not one is held
RefreshAlwaysAcquires == TRUE

\* whether refreshWebView calls getTokenWithRetry
RefreshAcquires == ~Truthy(fcmToken)

\* pull-to-refresh, the floating refresh button or the retry control: up to the
\* await of getTokenWithRetry, or to the end when a token is held
refreshWebView ==
  /\ WebViewMounted
  /\ ~refreshing
  /\ webViewKey < MaxWebViewKey
  /\ webViewLoading' = TRUE
  /\ IF RefreshAcquires
     THEN /\ tokenCalls < MaxTokenCalls
          /\ refreshing' = TRUE
          /\ chains' = chains \cup {[caller |-> "refresh", c |-> tokenRetryCount, pc |-> "getToken"]}
          /\ tokenCalls' = tokenCalls + 1
          /\ fx' = [NoFx EXCEPT !.op = "refreshStart", !.token = fcmToken, !.acquire = TRUE]
          /\ UNCHANGED webViewKey
     ELSE /\ refreshing' = FALSE
          /\ webViewKey' = webViewKey + 1
          /\ fx' = [NoFx EXCEPT !.op = "refreshDone", !.token = fcmToken, !.keyBump = TRUE, !.reload = RefreshReloads]
          /\ UNCHANGED <<chains, tokenCalls>>
  /\ UNCHANGED <<configVars, mounted, loading, url, error, tokenRetryCount, fcmToken, webViewCanGoBack, showRefreshButton, backHandlerCanGoBack, tokenEvents, tokenGot>>

(***************************************************************************)
(* Navigation guard                                                        *)
(***************************************************************************)

\* the recovery chosen after a BLOCK: the handler reads webViewCanGoBack of the
\* render it was created in (held), having just called setWebViewCanGoBack with
\* the event's value (evBack)
BlockRecovery(held, evBack) == IF held THEN "goBack" ELSE "redirect"

\* the address injected as window.location.href when the content cannot go back
RedirectTarget == constructUrl(baseUrl, fcmToken)

\* the reaction of handleNavigationStateChange to a navigation target
NavigationFx(navUrl, canGoBack) ==
  IF Evaluate(navUrl, allowedDomains) = "BLOCK"
  THEN LET recovery == BlockRecovery(webViewCanGoBack, canGoBack)
       IN [NoFx EXCEPT !.op = "navigation", !.in = navUrl, !.evBack = canGoBack, !.held = webViewCanGoBack, !.token = fcmToken,
                       !.decision = "BLOCK", !.stop = TRUE, !.toast = ToastExternal, !.recovery = recovery,
                       !.target = IF recovery = "redirect" THEN RedirectTarget ELSE Null]
  ELSE [NoFx EXCEPT !.op = "navigation", !.in = navUrl, !.evBack = canGoBack, !.held = webViewCanGoBack, !.token = fcmToken, !.decision = "ALLOW"]

\* onNavigationStateChange of the rendered WebView
handleNavigationStateChange(navUrl, canGoBack, navLoading) ==
  /\ WebViewMounted
  /\ webViewCanGoBack' = canGoBack
  /\ webViewLoading' = navLoading
  /\ fx' = NavigationFx(navUrl, canGoBack)
  /\ UNCHANGED <<configVars, mounted, loading, url, refreshing, error, tokenRetryCount, fcmToken, showRefreshButton, webViewKey, backHandlerCanGoBack, chains, tokenEvents, tokenCalls, tokenGot>>

\* the hardwareBackPress listener registered by the mount effect; it reads the
\* webViewCanGoBack of the render in which the effect last ran
hardwareBackPress ==
  /\ mounted = "mounted"
  /\ fx' = IF backHandlerCanGoBack /\ WebViewMounted
           THEN [NoFx EXCEPT !.op = "backPress", !.held = webViewCanGoBack, !.recovery = "goBack", !.handled = TRUE]
           ELSE [NoFx EXCEPT !.op = "backPress", !.held = webViewCanGoBack]
  /\ UNCHANGED <<configVars, mounted, loading, url, refreshing, error, tokenRetryCount, fcmToken, webViewLoading, webViewCanGoBack, showRefreshButton, webViewKey, backHandlerCanGoBack, chains, tokenEvents, tokenCalls, tokenGot>>

(***************************************************************************)
(* Load errors and content-process termination                             *)
(***************************************************************************)

\* LoadErrorReloads of an onError that reloads the content by itself
LoadErrorReloadsOnce == IF WebViewMounted THEN 1 ELSE 0

\* webViewRef.current.reload() calls made by onError
LoadErrorReloads == 0

\* webViewRef.current?.reload() calls made by onContentProcessDidTerminate
TerminationReloads == IF WebViewMounted THEN 1 ELSE 0

\* onError of the rendered WebView
onError ==
  /\ WebViewMounted
  /\ error' = ErrLoadFailed
  /\ showRefreshButton' = TRUE
  /\ webViewLoading' = FALSE
  /\ fx' = [NoFx EXCEPT !.op = "loadError", !.reload = LoadErrorReloads]
  /\ UNCHANGED <<configVars, mounted, loading, url, refreshing, tokenRetryCount, fcmToken, webViewCanGoBack, webViewKey, backHandlerCanGoBack, chains, tokenEvents, tokenCalls, tokenGot>>

\* onContentProcessDidTerminate of the rendered WebView
onContentProcessDidTerminate ==
  /\ WebViewMounted
  /\ webViewLoading' = TRUE
  /\ fx' = [NoFx EXCEPT !.op = "processTerminated", !.reload = TerminationReloads]
  /\ UNCHANGED <<configVars, mounted, loading, url, refreshing, error, tokenRetryCount, fcmToken, webViewCanGoBack, showRefreshButton, webViewKey, backHandlerCanGoBack, chains, tokenEvents, tokenCalls, tokenGot>>

(***************************************************************************)
(* Messages from the hosted content                                        *)
(***************************************************************************)

\* event.nativeEvent.data values: text that is no JSON, and parsed objects
Messages == {[json |-> FALSE, type |-> "none", url |-> Null, hasData |-> FALSE, action |-> "none", params |-> NoSocialParams],
             [json |-> TRUE, type |-> "initialized", url |-> Null, hasData |-> FALSE, action |-> "none", params |-> NoSocialParams],
             [json |-> TRUE, type |-> "windowOpen", url |-> EvilUrl, hasData |-> FALSE, action |-> "none", params |-> NoSocialParams],
             [json |-> TRUE, type |-> "windowOpen", url |-> ExamplePageUrl, hasData |-> FALSE, action |-> "none", params |-> NoSocialParams],
             [json |-> TRUE, type |-> "appEvent", url |-> Null, hasData |-> FALSE, action |-> "none", params |-> NoSocialParams],
             [json |-> TRUE, type |-> "appEvent", url |-> Null, hasData |-> TRUE, action |-> "openWhatsApp", params |-> NoSocialParams],
             [json |-> TRUE, type |-> "appEvent", url |-> Null, hasData |-> TRUE, action |-> "openSocial", params |-> NoSocialParams],
             [json |-> TRUE, type |-> "appEvent", url |-> Null, hasData |-> TRUE, action |-> "openWaze", params |-> NoSocialParams],
             [json |-> TRUE, type |-> "appEvent", url |-> Null, hasData |-> TRUE, action |-> "share", params |-> NoSocialParams],
             [json |-> TRUE, type |-> "telemetry", url |-> Null, hasData |-> FALSE, action |-> "none", params |-> NoSocialParams]}
            \cup {[json |-> TRUE, type |-> "appEvent", url |-> Null, hasData |-> TRUE, action |-> "openSocial", params |-> p] : p \in SocialParams}

\* the reaction of the 'windowOpen' case
WindowOpenFx(msg) == [NoFx EXCEPT !.op = "message", !.in = msg.url, !.held = webViewCanGoBack, !.token = fcmToken, !.decision = "windowOpen", !.toast = ToastExternal]

\* an 'appEvent' case that hands every action it is given to a launcher
AppEventFxAnyAction(msg, can) ==
  IF msg.hasData /\ msg.action # "none" THEN [NoFx EXCEPT !.op = "message", !.launch = msg.action] ELSE [NoFx EXCEPT !.op = "message", !.caught = TRUE]

\* the reaction of the 'appEvent' case; reading data.data.action of a message
\* without data throws into the handler's catch
AppEventFx(msg, can) ==
  IF ~msg.hasData THEN [NoFx EXCEPT !.op = "message", !.caught = TRUE]
  ELSE IF msg.action = "openSocial"
  THEN [NoFx EXCEPT !.op = "message", !.launch = msg.action, !.social = msg.params, !.can = can,
                    !.opened = openSocial(msg.params, can).opened, !.toast = openSocial(msg.params, can).toast]
  ELSE IF msg.action \in {"openWhatsApp", "openWaze"}
  THEN [NoFx EXCEPT !.op = "message", !.launch = msg.action]
  ELSE [NoFx EXCEPT !.op = "message"]

\* the body of handleWebViewMessage: JSON.parse throws into the catch for text
\* that is no JSON, then the switch on data.type
MessageFx(msg, can) ==
  IF ~msg.json THEN [NoFx EXCEPT !.op = "message", !.caught = TRUE]
  ELSE IF msg.type = "windowOpen" THEN WindowOpenFx(msg)
  ELSE IF msg.type = "appEvent" THEN AppEventFx(msg, can)
  ELSE [NoFx EXCEPT !.op = "message"]

\* onMessage of the rendered WebView
handleWebViewMessage(msg, can) ==
  /\ WebViewMounted
  /\ fx' = [MessageFx(msg, can) EXCEPT !.msg = msg]
  /\ UNCHANGED <<configVars, mounted, loading, url, refreshing, error, tokenRetryCount, fcmToken, webViewLoading, webViewCanGoBack, showRefreshButton, webViewKey, backHandlerCanGoBack, chains, tokenEvents, tokenCalls, tokenGot>>

(***************************************************************************)
(* The root layout: initFCM, notification handlers, banner                 *)
(***************************************************************************)

\* data blocks: primary coordinates (a string, an empty string, a number),
\* legacy coordinates, a screen (a string, a number), display text and a
\* vehicle field
DataBlocks ==
  {[k \in DataKeys |->
      IF k = "lat" THEN lat
      ELSE IF k = "lon" THEN lon
      ELSE IF k = "latitude" THEN legacy[1]
      ELSE IF k = "longitude" THEN legacy[2]
      ELSE IF k = "screen" THEN screen
      ELSE IF k = "title" THEN text[1]
      ELSE IF k = "message" THEN text[2]
      ELSE IF k = "placa" THEN placa
      ELSE Undef] :
     lat \in {Undef, Str("-22.9519"), Str(""), Num("7")},
     lon \in {Undef, Str("-43.2105")},
     legacy \in {<<Undef, Undef>>, <<Str("1.5"), Str("2.5")>>},
     screen \in {Undef, Str("/settings"), Num("7")},
     text \in {<<Undef, Undef>>, <<Str("DT"), Str("DM")>>},
     placa \in {Undef, Str("ABC1234")}}

\* notification blocks: none, one with title and body, one with neither
NotificationBlocks == {<<FALSE, Undef, Undef>>, <<TRUE, Str("T"), Str("B")>>, <<TRUE, Undef, Undef>>}

\* the RemoteMessages the push transport may deliver
Payloads ==
  {[hasData |-> TRUE, data |-> d, hasNotification |-> nb[1], title |-> nb[2], body |-> nb[3]] : d \in DataBlocks, nb \in NotificationBlocks}
  \cup {[hasData |-> FALSE, data |-> NoData, hasNotification |-> nb[1], title |-> nb[2], body |-> nb[3]] : nb \in NotificationBlocks}

\* initFCM: requestNotificationPermission(true); when granted getFCMToken(false,
\* true), handleNotificationNavigation of the notification that opened the app
\* (opened) and the onNotificationOpenedApp listener; else the permission toast
initFCM(answer, issued, opened) ==
  /\ fcmInit = "pending"
  /\ LET asked == PermissionRequest(platform, permission, answer, TRUE)
         got == FCMToken(platform, asked.permission, FALSE, TRUE, answer, issued)
     IN IF asked.granted
        THEN /\ permission' = got.permission
             /\ fcmInit' = "listening"
             /\ pfx' = [NoPfx EXCEPT !.op = IF opened THEN "coldStart" ELSE "initFCM", !.before = permission, !.token = got.token,
                                     !.requests = asked.requests + got.requests, !.toasts = asked.toasts + got.toasts,
                                     !.dest = IF opened THEN NotificationNavigationDest(payload) ELSE NoDest]
        ELSE /\ permission' = asked.permission
             /\ fcmInit' = "noPermission"
             /\ pfx' = [NoPfx EXCEPT !.op = "initFCM", !.before = permission, !.requests = asked.requests, !.toasts = asked.toasts + 1]
  /\ UNCHANGED <<screenVars, platform, payload, banner>>

\* the onNotificationOpenedApp listener: the user opened the app from the
\* notification while it was in the background
onNotificationOpenedApp ==
  /\ fcmInit = "listening"
  /\ pfx' = [NoPfx EXCEPT !.op = "backgroundOpened", !.dest = NotificationNavigationDest(payload)]
  /\ UNCHANGED <<screenVars, platform, permission, payload, fcmInit, banner>>

\* the onMessage handler of the third effect: a delivery in the foreground
onForegroundMessage ==
  /\ banner' = ForegroundBanner(payload, banner)
  /\ pfx' = [NoPfx EXCEPT !.op = "foreground", !.shown = payload.hasNotification]
  /\ UNCHANGED <<screenVars, platform, permission, payload, fcmInit>>

\* 'Ver detalhes' on the visible banner
handleViewDetails ==
  /\ banner.visible
  /\ banner.hasData
  /\ banner' = [banner EXCEPT !.visible = FALSE]
  /\ pfx' = [NoPfx EXCEPT !.op = "viewDetails", !.dest = ViewDetailsDest(banner)]
  /\ UNCHANGED <<screenVars, platform, permission, payload, fcmInit>>

\* 'Fechar' on the visible banner, or the modal's close request
hide ==
  /\ banner.visible
  /\ banner' = [banner EXCEPT !.visible = FALSE]
  /\ pfx' = [NoPfx EXCEPT !.op = "hide"]
  /\ UNCHANGED <<screenVars, platform, permission, payload, fcmInit>>

\* a call of getFCMToken(forcePermissionRequest, showToastOnDenied)
getFCMToken(forcePermissionRequest, showToastOnDenied, answer, issued) ==
  /\ LET got == FCMToken(platform, permission, forcePermissionRequest, showToastOnDenied, answer, issued)
     IN /\ permission' = got.permission
        /\ pfx' = [NoPfx EXCEPT !.op = "getFCMToken", !.force = forcePermissionRequest, !.before = permission, !.token = got.token,
                                !.requests = got.requests, !.toasts = got.toasts]
  /\ UNCHANGED <<screenVars, platform, payload, fcmInit, banner>>

(***************************************************************************)
(* Specifications                                                          *)
(***************************************************************************)

ChainIds == {[caller |-> k, c |-> c, pc |-> pc] : k \in {"init", "refresh"}, c \in 0..MaxTokenCalls, pc \in {"getToken", "sleep", "finally"}}

\* the load lifecycle: initialization, token refresh and manual refresh
Next ==
  /\ UNCHANGED pushVars
  /\ \/ Mount
     \/ onError
     \/ onContentProcessDidTerminate
     \/ \E ch \in ChainIds, result \in Tokens \cup {Null} : getTokenResolved(ch, result)
     \/ \E ch \in ChainIds : RetryTimer(ch)
     \/ \E ch \in ChainIds : InitFinally(ch)
     \/ \E t \in Tokens : TokenRefreshEmitted(t)
     \/ TokenRefreshed
     \/ refreshWebView

Spec == Init /\ [][Next]_vars

\* the load lifecycle of a screen that can be torn down at any moment
TeardownNext == Next \/ (Unmount /\ UNCHANGED pushVars)

TeardownSpec == Init /\ [][TeardownNext]_vars

NavInit == InitFor(NavDeployments)

\* the navigation guard and the message channel of a screen whose token
\* acquisition succeeds
NavNext ==
  /\ UNCHANGED pushVars
  /\ \/ Mount
     \/ \E ch \in ChainIds, result \in NavTokens : getTokenResolved(ch, result)
     \/ \E ch \in ChainIds : InitFinally(ch)
     \/ \E navUrl \in NavUrls, canGoBack \in BOOLEAN, navLoading \in BOOLEAN : handleNavigationStateChange(navUrl, canGoBack, navLoading)
     \/ \E msg \in Messages, can \in CanOpenOutcomes : handleWebViewMessage(msg, can)
     \/ hardwareBackPress

NavSpec == NavInit /\ [][NavNext]_vars

\* the root layout on each platform and permission state, with one payload
PushInit ==
  /\ ScreenInit({<<ExampleBaseUrl, Null, Undefined>>})
  /\ platform \in Platforms
  /\ permission \in PermissionStates
  /\ payload \in Payloads
  /\ fcmInit = "pending"
  /\ banner = NoBanner
  /\ pfx = NoPfx
  /\ toast = NoToast

\* the notification router, the banner and the token requests
PushNext ==
  /\ UNCHANGED toast
  /\ \/ \E answer \in {"granted", "denied"}, issued \in NavTokens \cup {Null}, opened \in BOOLEAN : initFCM(answer, issued, opened)
     \/ onNotificationOpenedApp
     \/ onForegroundMessage
     \/ handleViewDetails
     \/ hide
     \/ \E force \in BOOLEAN, showToast \in BOOLEAN, answer \in {"granted", "denied"}, issued \in NavTokens \cup {Null} : getFCMToken(force, showToast, answer, issued)

PushSpec == PushInit /\ [][PushNext]_vars

(***************************************************************************)
(* The Toast component (utils/toast.tsx). Time is counted in ticks of one  *)
(* second; a pending auto-hide timer is the number of ticks left before it *)
(* fires. Timers are never cleared: show only adds one.                    *)
(***************************************************************************)

\* the durations in use: the default of 3000 ms and the 5000 ms of the
\* notification-permission toast
ToastDurations == {3, 5}

\* at most this many auto-hide timers are pending at once
MaxToastTimers == 2

\* the time a message has been shown is counted up to this many ticks
MaxShownFor == 5

\* the rest of the program does not move while the Toast does
ToastFrame == UNCHANGED <<screenVars, platform, permission, payload, fcmInit, banner, pfx>>

\* the Toast mounts: its effect registers globalToast
ToastMount ==
  /\ ~toast.mounted
  /\ toast' = [toast EXCEPT !.mounted = TRUE, !.op = "mount"]
  /\ ToastFrame

\* the Toast unmounts: globalToast is null again, the component state is gone and
\* the timers still pending hide nothing that is mounted
ToastUnmount ==
  /\ toast.mounted
  /\ toast' = [NoToast EXCEPT !.op = "unmount"]
  /\ ToastFrame

\* showToast(message, duration, actionText): without a mounted Toast only a
\* warning is logged; otherwise the message replaces the one shown and one more
\* auto-hide timer of the given duration is started
showToastCall(message, duration, actionText) ==
  /\ Len(toast.timers) < MaxToastTimers
  /\ toast' = IF ~toast.mounted
               THEN [toast EXCEPT !.op = "showDropped"]
               ELSE [toast EXCEPT !.visible = TRUE, !.message = message, !.actionText = actionText, !.duration = duration, !.shownFor = 0, !.timers = Append(@, duration), !.op = "show"]
  /\ ToastFrame

\* hideToast(): hides what is shown; pending timers stay pending
hideToast ==
  /\ toast.mounted
  /\ toast' = [toast EXCEPT !.visible = FALSE, !.op = "hide"]
  /\ ToastFrame

\* an auto-hide timer fires: it calls hide(), whatever message is shown by then
ToastTimerFires ==
  /\ \E i \in 1..Len(toast.timers) :
       /\ toast.timers[i] = 0
       /\ toast' = [toast EXCEPT !.visible = FALSE, !.timers = SubSeq(@, 1, i - 1) \o SubSeq(@, i + 1, Len(@)), !.op = IF toast.visible THEN "timerHide" ELSE "timerIdle"]
  /\ ToastFrame

\* one second passes; timers that are due fire first
ToastTick ==
  /\ \A i \in 1..Len(toast.timers) : toast.timers[i] > 0
  /\ toast.timers # << >> \/ (toast.visible /\ toast.shownFor < MaxShownFor)
  /\ toast' = [toast EXCEPT !.timers = [i \in 1..Len(@) |-> @[i] - 1], !.shownFor = IF toast.visible /\ @ < MaxShownFor THEN @ + 1 ELSE @, !.op = "tick"]
  /\ ToastFrame

ToastNext ==
  \/ ToastMount
  \/ ToastUnmount
  \/ \E message \in {"A", "B"}, duration \in ToastDurations, actionText \in {"none", "Settings"} : showToastCall(message, duration, actionText)
  \/ hideToast
  \/ ToastTimerFires
  \/ ToastTick

ToastSpec == InitFor({<<ExampleBaseUrl, Null, Undefined>>}) /\ [][ToastNext]_vars

(***************************************************************************)
(* Claims: navigation guard (checked under NavSpec)                        *)
(***************************************************************************)

\* the hostname of a modelled navigation target, read off its spelling
HostOfNavUrl(u) ==
  IF u = ExamplePageUrl THEN MExampleHost
  ELSE IF u = UserinfoUrl THEN EvilComHost
  ELSE IF u = AboutBlankUrl THEN << >>
  ELSE From(u, Len(HttpsPrefix) + 1)

\* the hostname of the configured base address (empty when it does not parse)
ConfigHost == ParseUrl(configBaseUrl).hostname

\* the base domain D of the configured base address: its last two labels, found
\* from the positions of its dots; the fallback domain when it does not parse
BaseDomainD ==
  LET dots == {i \in 1..Len(ConfigHost) : ConfigHost[i] = "."}
      last == CHOOSE i \in dots : \A j \in dots : j <= i
      before == CHOOSE i \in dots \ {last} : \A j \in dots \ {last} : j <= i
  IN IF ~ParseUrl(configBaseUrl).ok THEN WefleetDomain
     ELSE IF Cardinality(dots) < 2 THEN ConfigHost
     ELSE From(ConfigHost, before + 1)

\* the matching rule of an allow-list entry e for hostname h: containment for a
\* bare label, exact or dot-suffix match for a dotted entry
EntryAdmits(e, h) ==
  IF \E i \in 1..Len(e) : e[i] = "."
  THEN h = e \/ (Len(h) > Len(e) /\ SubSeq(h, Len(h) - Len(e), Len(h)) = <<".">> \o e)
  ELSE \E i \in 0..(Len(h) - Len(e)) : \A k \in 1..Len(e) : h[i + k] = e[k]

\* the subdomains config declares when the base host contains wefleet.com.br
DeclaredAdmits(h) == Includes(ConfigHost, WefleetDomain) /\ (EntryAdmits(MWefleet, h) \/ EntryAdmits(M2Wefleet, h))

\* C1 as stated: for every hostname H, the decision for a parseable URL with
\* host H is ALLOW if and only if H matches the base domain D (H == D or H ends
\* with "." + D; containment when D is a bare label)
C1_AllowIffBaseDomain == (fx.op = "navigation" /\ fx.in \notin UnparseableUrls) => (fx.decision = "ALLOW" <=> EntryAdmits(BaseDomainD, HostOfNavUrl(fx.in)))

\* C1 as amended: the decision is ALLOW if and only if H matches the base domain
\* D or, when the base host contains wefleet.com.br, H equals or is a subdomain
\* of one of the declared hosts m.wefleet.com.br and m2.wefleet.com.br
C1_AllowIffBaseOrDeclared == (fx.op = "navigation" /\ fx.in \notin UnparseableUrls) => (fx.decision = "ALLOW" <=> (EntryAdmits(BaseDomainD, HostOfNavUrl(fx.in)) \/ DeclaredAdmits(HostOfNavUrl(fx.in))))

\* a declared subdomain is allowed although it is outside the base domain
C1_Witness == fx.op = "navigation" /\ configBaseUrl = LookalikeBaseUrl /\ fx.in = HttpsPrefix \o MWefleet /\ fx.decision = "ALLOW" /\ ~EntryAdmits(BaseDomainD, MWefleet)

\* C2: a navigation target that cannot be parsed is allowed, with no
\* stop-loading, advisory or recovery; a parseable target whose hostname no
\* allow-list entry admits is blocked; an empty allow-list blocks every parseable
\* target
C2_FailOpenDefaultDeny ==
  fx.op = "navigation" =>
    /\ fx.in \in UnparseableUrls => (fx.decision = "ALLOW" /\ ~fx.stop /\ fx.toast = "none" /\ fx.recovery = "none" /\ fx.target = Null)
    /\ (fx.in \notin UnparseableUrls /\ \A i \in 1..Len(allowedDomains) : ~EntryAdmits(allowedDomains[i], HostOfNavUrl(fx.in))) => (fx.decision = "BLOCK" /\ fx.stop)
    /\ fx.in \notin UnparseableUrls => Evaluate(fx.in, << >>) = "BLOCK"
    /\ fx.in \in UnparseableUrls => Evaluate(fx.in, << >>) = "ALLOW"

\* an unparseable target was allowed by a screen that blocks evil.com
C2_Witness == fx.op = "navigation" /\ fx.in = RelativeUrl /\ fx.decision = "ALLOW" /\ Evaluate(EvilUrl, allowedDomains) = "BLOCK"

\* C3 as stated: a blocked navigation stops the load, shows the advisory and
\* takes one recovery action: go-back if the navigation event says the content
\* can go back, otherwise a redirect to compose(base, held token)
C3_RecoveryByEventCanGoBack ==
  (fx.op = "navigation" /\ fx.decision = "BLOCK") =>
    /\ fx.stop
    /\ fx.toast = ToastExternal
    /\ fx.recovery = IF fx.evBack THEN "goBack" ELSE "redirect"
    /\ fx.recovery = "redirect" => fx.target = constructUrl(baseUrl, fx.token)

\* C4 as stated: every windowOpen message gets the reaction of a blocked
\* navigation: advisory, stop-loading, then go-back or redirect
C4_WindowOpenRecovers == (fx.op = "message" /\ fx.decision = "windowOpen") => (fx.toast = ToastExternal /\ fx.stop /\ fx.recovery \in {"goBack", "redirect"})

(***************************************************************************)
(* Claims: token acquisition, address composition, configuration, refresh  *)
(* (checked under Spec)                                                    *)
(***************************************************************************)


\* C17 as stated: the allow-list admits only hosts inside the base's
\* registrable domain; with the default base m.wefleet.com.br, whose
\* registrable domain is wefleet.com.br, a host such as evil.com.br is blocked
C17_OnlyRegistrableDomain ==
  (fx.op = "navigation" /\ fx.in \notin UnparseableUrls /\ configBaseUrl = DefaultBaseUrl) =>
    (fx.decision = "ALLOW" => EntryAdmits(WefleetDomain, HostOfNavUrl(fx.in)))

\* C18: for every base address config can return, a navigation to the base
\* address itself is allowed: a single-label host by containment, a dotted host
\* (an IP literal included) by its last two labels, an address that does not
\* parse because the guard fails open
C18_BaseHostAllowed ==
  /\ Evaluate(configBaseUrl, allowedDomains) = "ALLOW"
  /\ ParseUrl(configBaseUrl).ok => \E i \in 1..Len(allowedDomains) : EntryAdmits(allowedDomains[i], ConfigHost)
  /\ (fx.op = "navigation" /\ fx.in = configBaseUrl) => (fx.decision = "ALLOW" /\ ~fx.stop /\ fx.recovery = "none")

\* the content navigated to a base address whose host has three labels, the
\* last one empty, and was allowed
C18_Witness == fx.op = "navigation" /\ fx.in = configBaseUrl /\ ConfigHost = <<"a", ".", "a", ".">> /\ fx.decision = "ALLOW"


\* the web address of a recognised platform built from a username
PlatformWebUrl(lower, username) ==
  IF lower = SocialText.facebook THEN SocialText.facebookWeb \o SocialText.slash \o username
  ELSE IF lower = SocialText.instagram THEN SocialText.instagramWeb \o SocialText.slash \o username
  ELSE IF lower = SocialText.twitter THEN SocialText.twitterWeb \o SocialText.slash \o username
  ELSE SocialText.xWeb \o SocialText.slash \o username

\* C19 as stated: openSocial with an unrecognised type opens the explicit url
\* verbatim when one is given and otherwise opens nothing and shows an
\* advisory; for a recognised platform with a username whose deep link cannot
\* be opened it opens that platform's web address built from the username
C19_SocialFallbacks ==
  (fx.launch = "openSocial" /\ fx.social.type # Undefined /\ fx.can # "rejected") =>
    LET lower == ToLowerCase(fx.social.type)
        recognised == lower \in {SocialText.facebook, SocialText.instagram, SocialText.twitter, SocialText.x}
    IN /\ (~recognised /\ Truthy(fx.social.url)) => (fx.opened = fx.social.url /\ fx.toast = "none")
       /\ (~recognised /\ ~Truthy(fx.social.url)) => (fx.opened = Null /\ fx.toast = ToastInvalidSocial)
       /\ (recognised /\ Truthy(fx.social.username) /\ fx.can = "unsupported") => fx.opened = PlatformWebUrl(lower, fx.social.username)

\* C20 as stated: a hardware back press is consumed with a content go-back
\* exactly when the content can go back according to the latest navigation
\* state, and is left unhandled otherwise
C20_BackPressFollowsLatestState ==
  fx.op = "backPress" =>
    /\ fx.handled <=> (webViewCanGoBack /\ WebViewMounted)
    /\ fx.handled => fx.recovery = "goBack"
    /\ ~fx.handled => fx.recovery = "none"


\* a message the handler has no case for: text that is no JSON, an unknown
\* type, an appEvent without data or with an unknown action
IgnoredMessage(msg) ==
  \/ ~msg.json
  \/ msg.type \notin {"initialized", "windowOpen", "appEvent"}
  \/ msg.type = "appEvent" /\ (~msg.hasData \/ msg.action \notin {"openWhatsApp", "openSocial", "openWaze"})

\* C21: a message that is no JSON, has an unknown type, or is an appEvent
\* without data or with an unknown action launches nothing, navigates and
\* reloads nothing and changes no component state (an exception is caught in
\* the handler); an appEvent with action openWhatsApp, openSocial or openWaze
\* invokes that launcher and no other, and changes no component state either
C21_UnknownMessagesInert ==
  [][fx'.op = "message" =>
       /\ UNCHANGED <<configVars, mounted, loading, url, refreshing, error, tokenRetryCount, fcmToken, webViewLoading, webViewCanGoBack, showRefreshButton, webViewKey, backHandlerCanGoBack, chains, tokenEvents, tokenCalls, tokenGot>>
       /\ fx'.reload = 0 /\ ~fx'.keyBump /\ ~fx'.stop /\ fx'.recovery = "none" /\ fx'.target = Null /\ ~fx'.acquire
       /\ IgnoredMessage(fx'.msg) => (fx'.launch = "none" /\ fx'.opened = Null /\ fx'.toast = "none")
       /\ (fx'.msg.json /\ fx'.msg.type = "appEvent" /\ fx'.msg.hasData /\ fx'.msg.action \in {"openWhatsApp", "openSocial", "openWaze"}) =>
            (fx'.launch = fx'.msg.action /\ ~fx'.caught)]_vars

\* an appEvent without data was handled: reading its action threw into the
\* catch, nothing was launched
C21_Witness == fx.op = "message" /\ fx.msg.json /\ fx.msg.type = "appEvent" /\ ~fx.msg.hasData /\ fx.caught /\ fx.launch = "none"


\* C28 as stated: the address a blocked navigation is redirected to is itself
\* allowed by the allow-list the guard uses, for every baseUrl the screen can
\* be given, so a redirect is never answered by another block
C28_RedirectTargetAllowed == (fx.op = "navigation" /\ fx.recovery = "redirect") => Evaluate(fx.target, allowedDomains) = "ALLOW"


\* C29 as stated: when the deep link of openSocial cannot be opened and an
\* explicit url was supplied, the fallback opens exactly that url; and nothing
\* openSocial opens is a facebook.com address unless facebook was requested
C29_FallbackOpensGivenUrl ==
  (fx.launch = "openSocial" /\ fx.social.type # Undefined) =>
    /\ (fx.can = "unsupported" /\ Truthy(fx.social.url)) => fx.opened = fx.social.url
    /\ (fx.opened # Null /\ fx.opened # fx.social.url /\ StartsWith(fx.opened, SocialText.facebookWeb)) => ToLowerCase(fx.social.type) = SocialText.facebook

\* C5 as stated: during initialization the acquisition of the token is bounded:
\* while no token was obtained and no manual refresh ran, at most
\* MAX_TOKEN_RETRIES attempts are ever made
C5_AtMostThreeAttempts == (~tokenGot /\ webViewKey = 0 /\ \A ch \in chains : ch.caller = "init") => tokenCalls <= MAX_TOKEN_RETRIES

\* the query suffix that carries the token
QueryDevice == << "?", "d", "e", "v", "i", "c", "e", "=" >>

\* the address of the example: base https://m.example.com/app, token abc123
ExampleComposedUrl == << "h", "t", "t", "p", "s", ":", "/", "/", "m", ".", "e", "x", "a", "m", "p", "l", "e", ".", "c", "o", "m", "/", "a", "p", "p", "?", "d", "e", "v", "i", "c", "e", "=", "a", "b", "c", "1", "2", "3" >>

\* C6: the address composed for the content is base + "?device=" + token when a
\* token is available, and exactly base when the token is null or empty
C6_ComposedAddress ==
  /\ fx.op = "initToken" => url = (IF fx.in \in Tokens THEN baseUrl \o QueryDevice \o fx.in ELSE baseUrl)
  /\ fx.op = "tokenRefresh" => url = baseUrl \o QueryDevice \o fx.in
  /\ (fx.op = "refreshDone" /\ fx.in \in Tokens) => url = baseUrl \o QueryDevice \o fx.in
  /\ constructUrl(baseUrl, Null) = baseUrl
  /\ constructUrl(baseUrl, << >>) = baseUrl
  /\ \A t \in Tokens : constructUrl(baseUrl, t) = baseUrl \o QueryDevice \o t

\* initialization composed the example address from the example base and token
C6_Witness == fx.op = "initToken" /\ fx.in = TokenAbc /\ baseUrl = ExampleBaseUrl /\ url = ExampleComposedUrl

\* C7 as stated: when the base address is missing or the sentinel, once
\* initialization has finished the screen is the Configuration Error screen, no
\* token acquisition was attempted and no address is set
C7_ConfigErrorScreen == (BaseUrlInvalid /\ mounted = "mounted" /\ chains = {}) => (View = "configError" /\ tokenCalls = 0 /\ url = Null)

\* C8 as stated: when the address is configured neither in the environment nor
\* in the app configuration, no content address is ever set, and once
\* initialization has finished an error is displayed
C8_UnconfiguredShowsError == (~Truthy(extra) /\ ~Truthy(env) /\ propBaseUrl = Undefined) => (url = Null /\ ((mounted = "mounted" /\ chains = {}) => error # NoError))

\* C9: a token-refresh event delivered while the content is displayed replaces
\* the held token, recomposes the address with the configured base, makes
\* exactly one reload, leaves the content displayed (no return to loading), and
\* is the oldest event in flight (events are handled in emission order)
C9_TokenRefreshUpdates ==
  [][(fx'.op = "tokenRefresh" /\ WebViewMounted) =>
       (/\ fcmToken' = Head(tokenEvents)
        /\ url' = baseUrl \o QueryDevice \o Head(tokenEvents)
        /\ fx'.reload = 1
        /\ ~loading'
        /\ WebViewMounted'
        /\ tokenEvents' = Tail(tokenEvents))]_vars

\* a refresh event replaced the token abc123 obtained at initialization
C9_Witness == fx.op = "tokenRefresh" /\ fx.in = TokenXyz /\ fx.reload = 1 /\ WebViewMounted /\ fcmToken = TokenXyz /\ url = baseUrl \o QueryDevice \o TokenXyz /\ tokenCalls = 1 /\ tokenGot

\* C10: a manual refresh asks for a token exactly when none is held; whatever
\* the acquisition returns, its resolution forces a reload (the WebView key
\* changes, and the displayed WebView is told to reload) and clears
\* 'refreshing'; a refresh in progress is always one resolution away from that
C10_ManualRefresh ==
  /\ fx.op = "refreshStart" => (~Truthy(fx.token) /\ refreshing)
  /\ (fx.op = "refreshDone" /\ ~fx.acquire) => Truthy(fx.token)
  /\ fx.op = "refreshDone" => (fx.keyBump /\ (fx.reload = 1 \/ loading) /\ ~refreshing)
  /\ fx.op # "refreshRetry"
  /\ refreshing <=> \E ch \in chains : ch.caller = "refresh"
  /\ \A ch \in chains : ch.caller = "refresh" => ch.pc = "getToken"

\* a manual refresh whose acquisition failed still reloaded and cleared the flag
C10_Witness == fx.op = "refreshDone" /\ fx.acquire /\ fx.in = Null /\ fx.keyBump /\ ~refreshing /\ ~Truthy(fcmToken)

(***************************************************************************)
(* Claims: notification routing and token permission (checked under       *)
(* PushSpec)                                                               *)
(***************************************************************************)

\* the last step resolved the payload on cold start or background-open
ResolvedOnOpen == pfx.op \in {"coldStart", "backgroundOpened"}

\* the payload's data block has key k
Present(k) == payload.hasData /\ payload.data[k].t # "undefined"

\* the payload's data block has key k with a value other than "" and 0
NonEmpty(k) == Present(k) /\ payload.data[k].v \notin {"", "0"}

\* the last step pushed the map screen with the coordinates data[latKey], data[lonKey]
PushedMapAt(latKey, lonKey) == pfx.dest.path = Str("/map") /\ pfx.dest.params["latitude"].v = payload.data[latKey].v /\ pfx.dest.params["longitude"].v = payload.data[lonKey].v

\* C11 as stated: on cold start or background-open the first match wins:
\* lat and lon both present -> map with those values; else latitude and
\* longitude both present -> map; else screen present -> that named screen;
\* else the fallback destination
C11_FirstMatchByPresence ==
  ResolvedOnOpen =>
    IF Present("lat") /\ Present("lon") THEN pfx.dest.via = "latlon" /\ PushedMapAt("lat", "lon")
    ELSE IF Present("latitude") /\ Present("longitude") THEN pfx.dest.via = "legacy" /\ PushedMapAt("latitude", "longitude")
    ELSE IF Present("screen") THEN pfx.dest.via = "screen" /\ pfx.dest.path.v = payload.data["screen"].v
    ELSE pfx.dest.via = "fallback"

\* C11 as amended: the same order with 'present' read as present and not
\* empty, and a screen that is no string leading to '/'
C11_FirstMatchByNonEmpty ==
  ResolvedOnOpen =>
    IF NonEmpty("lat") /\ NonEmpty("lon") THEN pfx.dest.via = "latlon" /\ PushedMapAt("lat", "lon")
    ELSE IF NonEmpty("latitude") /\ NonEmpty("longitude") THEN pfx.dest.via = "legacy" /\ PushedMapAt("latitude", "longitude")
    ELSE IF NonEmpty("screen") THEN pfx.dest.via = "screen" /\ pfx.dest.path = (IF payload.data["screen"].t = "string" THEN payload.data["screen"] ELSE Str("/"))
    ELSE pfx.dest.via = "fallback"

\* a payload with lat, lon and screen resolved to the map on cold start
C11_Witness == pfx.op = "coldStart" /\ NonEmpty("lat") /\ NonEmpty("lon") /\ NonEmpty("screen") /\ pfx.dest.via = "latlon" /\ pfx.dest.path = Str("/map") /\ pfx.dest.params["latitude"] = Str("-22.9519")

\* the payload carries data.title and data.message as strings beside
\* notification.title and notification.body
BothTexts == payload.hasData /\ payload.data["title"].t = "string" /\ payload.data["message"].t = "string" /\ payload.hasNotification /\ payload.title.t = "string" /\ payload.body.t = "string"

\* C12 as stated: on every path that carries a title and a message (the two
\* map branches, the fallback, the banner and its 'view details'), data.title
\* and data.message win over notification.title and notification.body
C12_DataTextWins ==
  BothTexts =>
    /\ pfx.dest.via \in {"latlon", "legacy", "fallback", "viewDetails"} => (pfx.dest.params["title"] = payload.data["title"] /\ pfx.dest.params["message"] = payload.data["message"])
    /\ banner.visible => (banner.title = payload.data["title"] /\ banner.body = payload.data["message"])

\* what cold start or background-open resolution pushes for the payload
OpenDest == NotificationNavigationDest(payload)

\* C13 as stated: 'view details' on the foreground banner leads to the
\* destination that cold-start / background-open resolution produces for the
\* same payload: the same screen route, or the map with the same coordinates
C13_ViewDetailsSameAsOpen ==
  pfx.op = "viewDetails" =>
    /\ pfx.dest.path = OpenDest.path
    /\ pfx.dest.params["latitude"] = OpenDest.params["latitude"]
    /\ pfx.dest.params["longitude"] = OpenDest.params["longitude"]

\* C14 as stated: a data-only payload with lat, lon and placa delivered in the
\* foreground is presented, and its banner leads to the map with latitude =
\* data.lat, longitude = data.lon and placa = data.placa
C14_DataOnlyForeground ==
  (pfx.op = "foreground" /\ ~payload.hasNotification /\ NonEmpty("lat") /\ NonEmpty("lon") /\ NonEmpty("placa") /\ payload.data["lat"].t = "string") =>
    /\ pfx.shown
    /\ banner.visible
    /\ ViewDetailsDest(banner).path = Str("/map")
    /\ ViewDetailsDest(banner).params["latitude"] = payload.data["lat"]
    /\ ViewDetailsDest(banner).params["longitude"] = payload.data["lon"]
    /\ ViewDetailsDest(banner).params["placa"] = payload.data["placa"]

\* the payload has neither data nor notification block
BarePayload == ~payload.hasData /\ ~payload.hasNotification

C16_EscalateUnknownOnly ==
  (pfx.op = "getFCMToken" /\ ~pfx.force /\ platform \in {"ios", "android13"}) =>
    /\ (pfx.before = "unknown" => pfx.requests >= 1)
    /\ (pfx.before = "denied" => (pfx.requests = 0 /\ pfx.token = Null))

(***************************************************************************)
(* Claims about load errors, teardown and the held address (Spec)          *)
(***************************************************************************)

\* C22: a content load error never reloads by itself: it sets the load-failure
\* advisory, shows the refresh control, and leaves the address, the WebView
\* key and the token calls alone, so repeated load errors start nothing; each
\* content-process termination reloads the content exactly once
C22_LoadErrorNeverReloads ==
  [][/\ fx'.op = "loadError" =>
          /\ fx'.reload = 0 /\ ~fx'.keyBump /\ ~fx'.acquire /\ fx'.target = Null
          /\ error' = ErrLoadFailed /\ showRefreshButton' /\ ~webViewLoading'
          /\ UNCHANGED <<configVars, mounted, loading, url, refreshing, tokenRetryCount, fcmToken, webViewKey, chains, tokenEvents, tokenCalls>>
     /\ fx'.op = "processTerminated" =>
          /\ fx'.reload = 1 /\ ~fx'.keyBump /\ ~fx'.acquire
          /\ webViewLoading'
          /\ UNCHANGED <<configVars, mounted, loading, url, refreshing, error, tokenRetryCount, fcmToken, webViewKey, chains, tokenEvents, tokenCalls>>]_vars

\* a load error was reported to a screen that holds a token: the advisory and
\* the refresh control are shown, nothing was reloaded
C22_Witness == fx.op = "loadError" /\ fx.reload = 0 /\ error = ErrLoadFailed /\ showRefreshButton /\ Truthy(fcmToken) /\ View = "webview"

\* the state of the component
componentState == <<loading, url, refreshing, error, tokenRetryCount, fcmToken, webViewLoading, webViewCanGoBack, showRefreshButton, webViewKey>>

C26_UrlComposedFromHeldToken == Truthy(url) => url = constructUrl(baseUrl, fcmToken)

\* C27 as stated: once initialization has completed (loading is false and an
\* address is set) no step sets loading back to true
C27_NeverBackToLoading == [][(~loading /\ Truthy(url)) => ~loading']_vars

(***************************************************************************)
(* Further claims about the notification router (PushSpec)                 *)
(***************************************************************************)

\* C24 as stated: whenever resolution yields the map or a named screen, each
\* vehicle field (placa, id, ...) present in data is among the destination's
\* params with its value unmodified, and an absent field is not added
C24_VehicleFieldsCarried ==
  (ResolvedOnOpen /\ pfx.dest.via \in {"latlon", "legacy", "screen"}) =>
    \A k \in {"placa", "id"} : pfx.dest.params[k] = payload.data[k]

\* C25 as stated: every destination handed to the router carries a latitude
\* param exactly when it carries a longitude param, and carries them only when
\* the payload has both coordinates of one pair (lat and lon, or latitude and
\* longitude)
C25_CoordinatesComeInPairs ==
  pfx.dest.path # Undef =>
    /\ pfx.dest.params["latitude"] # Undef <=> pfx.dest.params["longitude"] # Undef
    /\ pfx.dest.params["latitude"] # Undef => ((NonEmpty("lat") /\ NonEmpty("lon")) \/ (NonEmpty("latitude") /\ NonEmpty("longitude")))

(***************************************************************************)
(* Claims about the Toast (ToastSpec)                                      *)
(***************************************************************************)

\* C30: a toast shown with duration d stays visible for at least d unless
\* hideToast is called or it is replaced, so an auto-hide timer hides a visible
\* toast only once that toast has been shown for its own duration; and showToast
\* while no Toast is mounted changes no state.
C30_ToastStaysForDuration ==
  [][/\ (toast'.op = "timerHide" /\ toast.visible) => toast.shownFor >= toast.duration
     /\ toast'.op = "showDropped" => [toast' EXCEPT !.op = toast.op] = toast]_vars

====
